---- MODULE Spec2Model ----
(***************************************************************************)
(* Model of NBAxPTS.py: the shot-probability estimator get_fg, the         *)
(* per-player aggregator get_player_xpts and the per-date compute/render   *)
(* script that drives them.                                                *)
(*                                                                         *)
(* Numbers.  The program computes with binary floating point; the model    *)
(* computes with exact rationals <<numerator, denominator>> in lowest      *)
(* terms with a positive denominator.  A DataFrame is modelled as a        *)
(* function from row (a record of the columns the program reads) to the    *)
(* number of rows with those column values; len(frame) is the sum of the   *)
(* counts.  game_shotchart and game_boxscore, which the program iterates   *)
(* row by row, are sequences of rows.                                      *)
(* Columns neither the computation of xPTS nor the order of the rendered   *)
(* tables reads (LOC_X, LOC_Y, PLAYER_NAME, FGM, FG3M, FG3A, FTM, TEAM_ID) *)
(* are left out of the rows.                                               *)
(***************************************************************************)
EXTENDS Integers, Sequences, FiniteSets, TLC

(***************************************************************************)
(* Bounds of the model.                                                    *)
(***************************************************************************)
MaxCount == 3      \* season rows per (bucket, made flag): 0..MaxCount ...
BigCount == 40     \* ... or BigCount, a volume past the bonus cap
NumGames == 2      \* games on the selected date
MaxFTA == 1        \* free-throw attempts per box score line
MaxShots == 2      \* rows of one game's shot chart

(***************************************************************************)
(* Literals of get_fg.                                                     *)
(***************************************************************************)
VolThreshold == 5
BonusDivExact == 150
BonusDivCoarse == 250

(***************************************************************************)
(* Exact rational arithmetic standing for Python's float /, +, * and min.  *)
(***************************************************************************)
RECURSIVE Gcd(_, _)
Gcd(a, b) == IF b = 0 THEN a ELSE Gcd(b, a % b)

Abs(x) == IF x < 0 THEN -x ELSE x

Frac(n, d) ==
    LET g == Gcd(Abs(n), d)
    IN  IF n = 0 THEN <<0, 1>> ELSE <<n \div g, d \div g>>

RLt(x, y) == x[1] * y[2] < y[1] * x[2]

RMin(x, y) == IF RLt(y, x) THEN y ELSE x

RAdd(x, y) ==
    LET g == Gcd(x[2], y[2])
    IN  Frac(x[1] * (y[2] \div g) + y[1] * (x[2] \div g), (x[2] \div g) * y[2])

RMul(x, y) ==
    LET g1 == Gcd(Abs(x[1]), y[2])
        g2 == Gcd(Abs(y[1]), x[2])
    IN  IF x[1] = 0 \/ y[1] = 0 THEN <<0, 1>>
        ELSE <<(x[1] \div g1) * (y[1] \div g2), (x[2] \div g2) * (y[2] \div g1)>>

RInt(n) == <<n, 1>>

\* sum(column) of a column of floats
RECURSIVE RSum(_)
RSum(s) == IF s = <<>> THEN RInt(0) ELSE RAdd(Head(s), RSum(Tail(s)))

BonusCap == Frac(25, 100)

ProbCap == Frac(95, 100)

(***************************************************************************)
(* DataFrames as functions row -> number of such rows.                     *)
(***************************************************************************)
RECURSIVE SumCounts(_, _)
SumCounts(d, S) ==
    IF S = {} THEN 0
    ELSE LET r == CHOOSE x \in S : TRUE
         IN  d[r] + SumCounts(d, S \ {r})

\* len(frame)
DfLen(d) == SumCounts(d, DOMAIN d)

\* frame[mask]: the rows of d at which the mask (the set of rows where it
\* is true) holds
DfWhere(d, mask) == [r \in DOMAIN d \cap mask |-> d[r]]

(***************************************************************************)
(* get_fg (src/NBAxPTS.py:140-156).                                        *)
(*                                                                         *)
(* In the sparse branch the numerator mask is                              *)
(*   (player_season_df.SHOT_ZONE_BASIC == z) & (shots_df.SHOT_MADE_FLAG==1)*)
(* whose right operand is indexed by the rows of shots_df only.  pandas    *)
(* aligns the two masks on the union of their indexes and reads a row      *)
(* missing from the right operand as False, so the numerator counts the    *)
(* made rows of shots_df, the exact bucket.                                *)
(***************************************************************************)
\* get_fg without the final clamp to 0.95
get_fg_uncapped(player_season_df, shot_type, shot_zone_basic, shot_area) ==
    LET shots_df == DfWhere(player_season_df,
                        {r \in DOMAIN player_season_df :
                            /\ r.SHOT_ZONE_BASIC = shot_zone_basic
                            /\ r.SHOT_ZONE_AREA = shot_area
                            /\ r.ACTION_TYPE = shot_type})
        vol == DfLen(shots_df)
        zone_df == DfWhere(player_season_df,
                        {r \in DOMAIN player_season_df :
                            r.SHOT_ZONE_BASIC = shot_zone_basic})
        made_df == DfWhere(shots_df,
                        {r \in DOMAIN shots_df : r.SHOT_MADE_FLAG = 1})
    IN  IF vol > VolThreshold
        THEN RAdd(Frac(DfLen(made_df), vol), RMin(Frac(vol, BonusDivExact), BonusCap))
        ELSE IF DfLen(zone_df) = 0
             THEN RInt(0)
             ELSE RAdd(Frac(DfLen(made_df), DfLen(zone_df)),
                       RMin(Frac(vol, BonusDivCoarse), BonusCap))

\* get_fg with the branch test written vol >= 5
get_fg_ge(player_season_df, shot_type, shot_zone_basic, shot_area) ==
    LET shots_df == DfWhere(player_season_df,
                        {r \in DOMAIN player_season_df :
                            /\ r.SHOT_ZONE_BASIC = shot_zone_basic
                            /\ r.SHOT_ZONE_AREA = shot_area
                            /\ r.ACTION_TYPE = shot_type})
        vol == DfLen(shots_df)
        zone_df == DfWhere(player_season_df,
                        {r \in DOMAIN player_season_df :
                            r.SHOT_ZONE_BASIC = shot_zone_basic})
        made_df == DfWhere(shots_df,
                        {r \in DOMAIN shots_df : r.SHOT_MADE_FLAG = 1})
    IN  IF vol >= VolThreshold
        THEN RMin(RAdd(Frac(DfLen(made_df), vol),
                       RMin(Frac(vol, BonusDivExact), BonusCap)), ProbCap)
        ELSE IF DfLen(zone_df) = 0
             THEN RInt(0)
             ELSE RMin(RAdd(Frac(DfLen(made_df), DfLen(zone_df)),
                            RMin(Frac(vol, BonusDivCoarse), BonusCap)), ProbCap)

\* get_fg that, for an empty zone, falls back to the rate of the whole table
get_fg_overall(player_season_df, shot_type, shot_zone_basic, shot_area) ==
    LET shots_df == DfWhere(player_season_df,
                        {r \in DOMAIN player_season_df :
                            /\ r.SHOT_ZONE_BASIC = shot_zone_basic
                            /\ r.SHOT_ZONE_AREA = shot_area
                            /\ r.ACTION_TYPE = shot_type})
        vol == DfLen(shots_df)
        zone_df == DfWhere(player_season_df,
                        {r \in DOMAIN player_season_df :
                            r.SHOT_ZONE_BASIC = shot_zone_basic})
        made_df == DfWhere(shots_df,
                        {r \in DOMAIN shots_df : r.SHOT_MADE_FLAG = 1})
        all_made == DfWhere(player_season_df,
                        {r \in DOMAIN player_season_df : r.SHOT_MADE_FLAG = 1})
    IN  IF vol > VolThreshold
        THEN RMin(RAdd(Frac(DfLen(made_df), vol),
                       RMin(Frac(vol, BonusDivExact), BonusCap)), ProbCap)
        ELSE IF DfLen(zone_df) = 0
             THEN IF DfLen(player_season_df) = 0 THEN RInt(0)
                  ELSE RMin(Frac(DfLen(all_made), DfLen(player_season_df)), ProbCap)
             ELSE RMin(RAdd(Frac(DfLen(made_df), DfLen(zone_df)),
                            RMin(Frac(vol, BonusDivCoarse), BonusCap)), ProbCap)

get_fg(player_season_df, shot_type, shot_zone_basic, shot_area) ==
    LET shots_df == DfWhere(player_season_df,
                        {r \in DOMAIN player_season_df :
                            /\ r.SHOT_ZONE_BASIC = shot_zone_basic
                            /\ r.SHOT_ZONE_AREA = shot_area
                            /\ r.ACTION_TYPE = shot_type})
        vol == DfLen(shots_df)
        zone_df == DfWhere(player_season_df,
                        {r \in DOMAIN player_season_df :
                            r.SHOT_ZONE_BASIC = shot_zone_basic})
        made_df == DfWhere(shots_df,
                        {r \in DOMAIN shots_df : r.SHOT_MADE_FLAG = 1})
        num_df == DfWhere(player_season_df,
                        {r \in DOMAIN player_season_df :
                            /\ r.SHOT_ZONE_BASIC = shot_zone_basic
                            /\ r \in DOMAIN shots_df
                            /\ r.SHOT_MADE_FLAG = 1})
    IN  IF vol > VolThreshold
        THEN RMin(RAdd(Frac(DfLen(made_df), vol),
                       RMin(Frac(vol, BonusDivExact), BonusCap)), ProbCap)
        ELSE IF DfLen(zone_df) = 0
             THEN RInt(0)
             ELSE RMin(RAdd(Frac(DfLen(num_df), DfLen(zone_df)),
                            RMin(Frac(vol, BonusDivCoarse), BonusCap)), ProbCap)


(***************************************************************************)
(* State: the module-level names of the script.                            *)
(***************************************************************************)
VARIABLES
    df,               \* season shot table (line 216-225)
    player_FTpct_df,  \* season free-throw table indexed by PLAYER_ID (228-229)
    game_ids,         \* games of the selected date (239)
    pc,               \* position of the script
    game_i,           \* index of the `for game_id in game_ids` loop (243)
    game_boxscore,    \* box score of the current game (245-248, 280)
    game_shotchart,   \* shot log of the current game (250-268)
    player_i,         \* index of the `for player_id, player` loop (273)
    xPTS_list,        \* per-player results of the current game (272-278)
    rectangles,       \* computed games (240, 288)
    render_i,         \* index of the render loop (301)
    screen,           \* what st.* has put on the page for this date
    invoked,          \* calls of get_player_xpts / get_fg made for the current game
    exc,              \* the exception the try block caught (`e`, line 339)
    fg_args,          \* arguments of a direct get_fg call
    fg_ret,           \* its return value
    calls             \* history: get_player_xpts calls made with the inputs of
                      \* the first one, each with its box score row and result

vars == <<df, player_FTpct_df, game_ids, pc, game_i, game_boxscore,
          game_shotchart, player_i, xPTS_list, rectangles, render_i, screen,
          invoked, exc, fg_args, fg_ret, calls>>

(***************************************************************************)
(* Value sets of the upstream data.                                        *)
(***************************************************************************)
Players == {1, 2, 3}

\* TEAM_ABBREVIATION values of the away side; "XXX" is not a key of team_logos
AwayTeams == {"LAL", "XXX"}

team_logos == {"ATL", "BOS", "BKN", "CHA", "CHI", "CLE", "DAL", "DEN", "DET",
               "GSW", "HOU", "IND", "LAC", "LAL", "MEM", "MIA", "MIL", "MIN",
               "NOP", "NYK", "OKC", "ORL", "PHI", "PHX", "POR", "SAC", "SAS",
               "TOR", "UTA", "WAS"}

Bucket(a, zb, za) ==
    [ACTION_TYPE |-> a, SHOT_ZONE_BASIC |-> zb, SHOT_ZONE_AREA |-> za]

B1 == Bucket("Jump Shot", "Mid-Range", "Center(C)")
B2 == Bucket("Layup Shot", "Mid-Range", "Left Side(L)")
B3 == Bucket("Jump Shot", "Restricted Area", "Center(C)")
B4 == Bucket("Layup Shot", "Restricted Area", "Center(C)")

\* buckets that occur in the season table
SeasonBuckets == {B1, B2, B3}

\* buckets a queried shot may have
AllBuckets ==
    {Bucket(a, zb, za) : a \in {"Jump Shot", "Layup Shot"},
                         zb \in {"Mid-Range", "Restricted Area"},
                         za \in {"Center(C)", "Left Side(L)"}}

SeasonRow(p, b, made) ==
    [PLAYER_ID |-> p, ACTION_TYPE |-> b.ACTION_TYPE,
     SHOT_ZONE_BASIC |-> b.SHOT_ZONE_BASIC, SHOT_ZONE_AREA |-> b.SHOT_ZONE_AREA,
     SHOT_MADE_FLAG |-> made]

SeasonRows(p) == {SeasonRow(p, b, made) : b \in SeasonBuckets, made \in {0, 1}}

Counts == (0 .. MaxCount) \cup {BigCount}

\* season tables of one player used for direct get_fg calls
FgProfiles == [SeasonRows(1) -> Counts]

(***************************************************************************)
(* get_player_xpts (src/NBAxPTS.py:158-174).  Reads the module-level df,   *)
(* game_boxscore and player_FTpct_df.                                      *)
(***************************************************************************)
\* int(shot['SHOT_TYPE'])
IntOf(c) == IF c = "2" THEN 2 ELSE 3

\* game_boxscore.loc[player_id, col]: the line labelled player_id
Loc(box, player_id) ==
    box[CHOOSE k \in 1 .. Len(box) : box[k].PLAYER_ID = player_id]

\* round(x, 1): nearest tenth, ties to the even tenth
Round1(x) ==
    LET t == (10 * x[1]) \div x[2]
        twice == 2 * (10 * x[1] - t * x[2])
    IN  IF twice < x[2] THEN Frac(t, 10)
        ELSE IF twice > x[2] THEN Frac(t + 1, 10)
        ELSE IF t % 2 = 0 THEN Frac(t, 10) ELSE Frac(t + 1, 10)

\* the for loop of lines 165-168 over the rows of player_game_shotchart
RECURSIVE ShotLoop(_, _, _)
ShotLoop(rows, player_season_shotchart, xPTS) ==
    IF rows = <<>> THEN xPTS
    ELSE LET shot == Head(rows)
             shot_xpts == get_fg(player_season_shotchart, shot.ACTION_TYPE,
                                 shot.SHOT_ZONE_BASIC, shot.SHOT_ZONE_AREA)
         IN  ShotLoop(Tail(rows), player_season_shotchart,
                      RAdd(xPTS, RMul(RInt(IntOf(shot.SHOT_TYPE)), shot_xpts)))

\* the game log taken whole, without the PLAYER_ID filter
PlayerGameShotchart_all(player_id, shotchart) == shotchart

\* rows of the game log the call hands to get_fg
PlayerGameShotchart(player_id, shotchart) ==
    SelectSeq(shotchart, LAMBDA r : r.PLAYER_ID = player_id)

\* get_player_xpts that takes a missing free-throw percentage as 0
get_player_xpts_default(player_id, shotchart) ==
    LET player_season_shotchart ==
            DfWhere(df, {r \in DOMAIN df : r.PLAYER_ID = player_id})
        player_game_shotchart == PlayerGameShotchart(player_id, shotchart)
        xPTS == ShotLoop(player_game_shotchart, player_season_shotchart, RInt(0))
        pct == IF player_id \in DOMAIN player_FTpct_df
               THEN player_FTpct_df[player_id] ELSE RInt(0)
    IN  [raised |-> "no",
         value |-> Round1(RAdd(xPTS,
                               RMul(RInt(Loc(game_boxscore, player_id).FTA), pct)))]

\* get_player_xpts that reads the free-throw attempts of the first box score
\* row (.iloc[0]) instead of the player's row
get_player_xpts_iloc(player_id, shotchart) ==
    LET player_season_shotchart ==
            DfWhere(df, {r \in DOMAIN df : r.PLAYER_ID = player_id})
        player_game_shotchart == PlayerGameShotchart(player_id, shotchart)
        xPTS == ShotLoop(player_game_shotchart, player_season_shotchart, RInt(0))
    IN  IF player_id \notin DOMAIN player_FTpct_df
        THEN [raised |-> "KeyError"]
        ELSE [raised |-> "no",
              value |-> Round1(RAdd(xPTS,
                                    RMul(RInt(game_boxscore[1].FTA),
                                         player_FTpct_df[player_id])))]

get_player_xpts(player_id, shotchart) ==
    LET player_season_shotchart ==
            DfWhere(df, {r \in DOMAIN df : r.PLAYER_ID = player_id})
        player_game_shotchart == PlayerGameShotchart(player_id, shotchart)
        xPTS == ShotLoop(player_game_shotchart, player_season_shotchart, RInt(0))
    IN  IF player_id \notin DOMAIN player_FTpct_df
        THEN [raised |-> "KeyError"]
        ELSE [raised |-> "no",
              value |-> Round1(RAdd(xPTS,
                                    RMul(RInt(Loc(game_boxscore, player_id).FTA),
                                         player_FTpct_df[player_id])))]

\* the get_fg calls one get_player_xpts call makes
FgCallsOf(player_id, shotchart) ==
    LET rows == PlayerGameShotchart(player_id, shotchart)
    IN  {[fn |-> "get_fg", player |-> player_id,
          bucket |-> Bucket(rows[k].ACTION_TYPE, rows[k].SHOT_ZONE_BASIC,
                            rows[k].SHOT_ZONE_AREA)] : k \in 1 .. Len(rows)}


(***************************************************************************)
(* Upstream feeds: what the box score and shot chart endpoints may answer. *)
(***************************************************************************)
\* a box score row as fetched; a player who did not play has None columns
BoxLine(p, team, fga, fta, pts, min) ==
    [PLAYER_ID |-> p, TEAM_ABBREVIATION |-> team, PTS |-> pts, FGA |-> fga,
     FTA |-> fta, MIN |-> min]

\* lines of player p: played, with every attempt or none of them scored as
\* Makes says, or did not play
BoxLines(p, team, FGAs, FTAs, Makes) ==
    {BoxLine(p, team, fga, fta, mk * (2 * fga + fta), "32.000000:15") :
        fga \in FGAs, fta \in FTAs, mk \in Makes}
        \cup {BoxLine(p, team, 0, 0, 0, "None")}

\* box scores of the per-date script: player 1 at home, players 2 and 3 away
ScriptBoxFeed ==
    UNION {{<<l1, l2, BoxLine(3, t, 0, 1, 1, "32.000000:15")>> :
                l1 \in BoxLines(1, "BOS", 0 .. 1, {0}, {0}),
                l2 \in BoxLines(2, t, {0}, 0 .. MaxFTA, {0, 1})} : t \in AwayTeams}

\* box scores of a single game's player loop
GameBoxFeed ==
    {<<l1, l2, l3>> :
        l1 \in BoxLines(1, "BOS", 0 .. MaxShots, 0 .. MaxFTA, {0}),
        l2 \in BoxLines(2, "LAL", 0 .. MaxShots, 0 .. MaxFTA, {0}),
        l3 \in BoxLines(3, "LAL", {0}, {1}, {1})}

\* box scores of two players in either row order, for calls made game after
\* game
CallBoxFeed ==
    UNION {{<<l1, l2>>, <<l2, l1>>} :
        l1 \in BoxLines(1, "BOS", {MaxShots - 1}, {0, MaxFTA}, {0}),
        l2 \in BoxLines(2, "LAL", {1}, {0, MaxFTA}, {0})}

\* a shot chart row as fetched
ChartRow(p, type, b) ==
    [PLAYER_ID |-> p, SHOT_TYPE |-> type, ACTION_TYPE |-> b.ACTION_TYPE,
     SHOT_ZONE_BASIC |-> b.SHOT_ZONE_BASIC, SHOT_ZONE_AREA |-> b.SHOT_ZONE_AREA]

SeqsUpTo(S, n) == UNION {[1 .. k -> S] : k \in 0 .. n}

\* the field-goal attempts the box score credits to player p (0 if no line)
FgaOf(box, p) ==
    IF \E k \in 1 .. Len(box) : box[k].PLAYER_ID = p THEN Loc(box, p).FGA ELSE 0

\* shot charts of the game whose box score is box: one row per attempt
ChartFeed(box, kinds) ==
    {c \in SeqsUpTo(UNION {kinds[p] : p \in Players}, MaxShots) :
        \A p \in Players :
            Len(SelectSeq(c, LAMBDA r : r.PLAYER_ID = p)) = FgaOf(box, p)}

\* feeds of the per-date script
ScriptKinds ==
    [p \in Players |->
        IF p = 1 THEN {ChartRow(1, "2PT Field Goal", B1)} ELSE {}]

\* feeds of a single game's player loop
GameKinds ==
    [p \in Players |->
        IF p = 3 THEN {}
        ELSE {ChartRow(p, "2PT Field Goal", B1),
              ChartRow(p, "3PT Field Goal", IF p = 1 THEN B2 ELSE B4)}]

\* feeds of calls made game after game
CallKinds ==
    [p \in Players |->
        IF p = 1 THEN GameKinds[1]
        ELSE IF p = 2 THEN {ChartRow(2, "3PT Field Goal", B4)}
        ELSE {}]

FtPcts == {Frac(750, 1000), Frac(857, 1000)}

\* free-throw tables: player 1, player 2 or both may be absent
FtTables ==
    {t \in UNION {[S -> FtPcts] : S \in SUBSET Players} :
        /\ 3 \in DOMAIN t /\ t[3] = Frac(750, 1000)
        /\ 2 \in DOMAIN t => t[2] = Frac(857, 1000)}

\* season tables: player 1 has shots in the Mid-Range buckets, players 2 and
\* 3 have MaxCount rows of every kind
Profiles(p) ==
    IF p = 1
    THEN {f \in [SeasonRows(1) -> {0, MaxCount}] :
            \A r \in SeasonRows(1) : r.SHOT_ZONE_BASIC = "Restricted Area" => f[r] = 0}
    ELSE {[r \in SeasonRows(p) |-> MaxCount]}

DfTables ==
    {f1 @@ f2 @@ f3 : f1 \in Profiles(1), f2 \in Profiles(2), f3 \in Profiles(3)}

DfScript ==
    {[r \in UNION {SeasonRows(p) : p \in Players} |->
        IF r.SHOT_MADE_FLAG = 1 THEN c ELSE MaxCount] : c \in {0, MaxCount}}

FtScript == {t \in FtTables : 1 \in DOMAIN t /\ t[1] = Frac(750, 1000)}

(***************************************************************************)
(* Steps of the per-date script (src/NBAxPTS.py:239-341).                  *)
(***************************************************************************)
\* .dropna(): rows with a None column go
DropNa(box) == SelectSeq(box, LAMBDA l : l.MIN # "None")

\* min.split('.')[0]
MinSplit(min) == IF min = "32.000000:15" THEN "32" ELSE min

\* x[0] of the fetched SHOT_TYPE
FirstChar(s) == IF s = "2PT Field Goal" THEN "2" ELSE "3"

\* lines 245-248 applied to a fetched box score
PrepareBox(raw) ==
    LET kept == DropNa(raw)
    IN  [k \in 1 .. Len(kept) |-> [kept[k] EXCEPT !.MIN = MinSplit(@)]]

\* line 267 applied to the concatenated shot chart
PrepareChart(raw) ==
    [k \in 1 .. Len(raw) |-> [raw[k] EXCEPT !.SHOT_TYPE = FirstChar(@)]]

\* Series.unique(): first occurrences, in order
\* the exception object `e` of line 339: its type and str(e)
Exc(type, arg) == [type |-> type, arg |-> arg]

NoExc == Exc("none", "")

\* repr of a str key, as str(KeyError(key)) prints it
Repr(key) == "'" \o key \o "'"

RECURSIVE Unique(_)
Unique(s) ==
    IF s = <<>> THEN <<>>
    ELSE LET rest == Unique(SelectSeq(Tail(s), LAMBDA x : x # Head(s)))
         IN  <<Head(s)>> \o rest

\* lines 245-248: fetch the box score; get_box_scores answers None when the
\* fetch fails and subscripting None raises
BoxScoreFrom(feed) ==
    /\ pc = "box"
    /\ \/ /\ pc' = "except"
          /\ exc' = Exc("TypeError", "'NoneType' object is not subscriptable")
          /\ UNCHANGED game_boxscore
       \/ \E raw \in feed :
            /\ game_boxscore' = PrepareBox(raw)
            /\ pc' = "chart"
            /\ UNCHANGED exc
    /\ UNCHANGED <<calls, df, player_FTpct_df, game_ids, game_i, game_shotchart,
                   player_i, xPTS_list, rectangles, render_i, screen, invoked,
                   fg_args, fg_ret>>

\* BoxScoreStep with the handler inside the loop: a failed game is reported
\* and skipped
BoxScoreStep_skip ==
    /\ pc = "box"
    /\ \/ /\ exc' = Exc("TypeError", "'NoneType' object is not subscriptable")
          /\ screen' = Append(screen, [kind |-> "An error occurred", e |-> exc'])
          /\ IF game_i < Len(game_ids)
             THEN /\ game_i' = game_i + 1
                  /\ UNCHANGED <<pc, render_i>>
             ELSE /\ pc' = "render"
                  /\ render_i' = 1
                  /\ UNCHANGED game_i
          /\ UNCHANGED game_boxscore
       \/ \E raw \in ScriptBoxFeed :
            /\ game_boxscore' = PrepareBox(raw)
            /\ pc' = "chart"
            /\ UNCHANGED <<exc, screen, game_i, render_i>>
    /\ UNCHANGED <<calls, df, player_FTpct_df, game_ids, game_shotchart,
                   player_i, xPTS_list, rectangles, invoked, fg_args, fg_ret>>

\* the box score step of the per-date script
BoxScoreStep == BoxScoreFrom(ScriptBoxFeed)

\* the box score step with the two players in either row order
BoxScoreStepCalls == BoxScoreFrom(CallBoxFeed)

\* lines 250-272: fetch both shot charts, concatenate, normalise SHOT_TYPE,
\* empty xPTS_list
ShotChartFrom(kinds) ==
    /\ pc = "chart"
    /\ \/ /\ pc' = "except"
          /\ exc' = Exc("FetchError", "")
          /\ UNCHANGED <<game_shotchart, xPTS_list, player_i, invoked>>
       \/ \E rows \in ChartFeed(game_boxscore, kinds), playoffs \in BOOLEAN :
            /\ game_shotchart' =
                 PrepareChart(IF playoffs THEN <<>> \o rows ELSE rows \o <<>>)
            /\ xPTS_list' = <<>>
            /\ player_i' = 1
            /\ invoked' = {}
            /\ pc' = "players"
            /\ UNCHANGED exc
    /\ UNCHANGED <<calls, df, player_FTpct_df, game_ids, game_i, game_boxscore,
                   rectangles, render_i, screen, fg_args, fg_ret>>

\* the shot chart step of the per-date script
ShotChartStep == ShotChartFrom(ScriptKinds)

\* the shot chart step of the games with two shooting players
ShotChartStepCalls == ShotChartFrom(CallKinds)

\* what a call of get_player_xpts reads: the player, the player's rows of the
\* game log in their order, and the player's free-throw attempts (the season
\* table and the free-throw table are the same for every call of a run)
SameInputs(c1, c2) ==
    /\ c1.player_id = c2.player_id
    /\ c1.shots = c2.shots
    /\ c1.FTA = c2.FTA

\* the call of line 278 for box score row k, with what it returns or raises
CallOf(k) ==
    LET player_id == game_boxscore[k].PLAYER_ID
    IN  [player_id |-> player_id,
         shots |-> PlayerGameShotchart(player_id, game_shotchart),
         FTA |-> game_boxscore[k].FTA,
         row |-> k,
         ret |-> get_player_xpts(player_id, game_shotchart)]

\* the history of calls after the call for row k: the first call of the run
\* and every later call with the same inputs are kept
Recorded(k) ==
    IF \A c \in calls : SameInputs(c, CallOf(k))
    THEN calls \cup {CallOf(k)}
    ELSE calls

\* PlayerStep without the zero-attempts short-circuit of line 275
PlayerStep_nocheck ==
    /\ pc = "players"
    /\ player_i <= Len(game_boxscore)
    /\ LET player == game_boxscore[player_i]
           player_id == player.PLAYER_ID
           ret == get_player_xpts(player_id, game_shotchart)
       IN  /\ invoked' = invoked
                   \cup {[fn |-> "get_player_xpts", player |-> player_id]}
                   \cup FgCallsOf(player_id, game_shotchart)
           /\ calls' = Recorded(player_i)
           /\ IF ret.raised = "KeyError"
              THEN /\ pc' = "except"
                   /\ exc' = Exc("KeyError", ToString(player_id))
                   /\ UNCHANGED <<xPTS_list, player_i>>
              ELSE /\ xPTS_list' = Append(xPTS_list, ret.value)
                   /\ player_i' = player_i + 1
                   /\ UNCHANGED <<pc, exc>>
    /\ UNCHANGED <<df, player_FTpct_df, game_ids, game_i, game_boxscore,
                   game_shotchart, rectangles, render_i, screen, fg_args, fg_ret>>

\* lines 273-278: one iteration of the player loop
PlayerStep ==
    /\ pc = "players"
    /\ player_i <= Len(game_boxscore)
    /\ LET player == game_boxscore[player_i]
           player_id == player.PLAYER_ID
           ret == get_player_xpts(player_id, game_shotchart)
       IN  IF player.FGA + player.FTA = 0
           THEN /\ xPTS_list' = Append(xPTS_list, RInt(0))
                /\ player_i' = player_i + 1
                /\ UNCHANGED <<pc, invoked, exc, calls>>
           ELSE /\ invoked' = invoked
                        \cup {[fn |-> "get_player_xpts", player |-> player_id]}
                        \cup FgCallsOf(player_id, game_shotchart)
                /\ calls' = Recorded(player_i)
                /\ IF ret.raised = "KeyError"
                   THEN /\ pc' = "except"
                        /\ exc' = Exc("KeyError", ToString(player_id))
                        /\ UNCHANGED <<xPTS_list, player_i>>
                   ELSE /\ xPTS_list' = Append(xPTS_list, ret.value)
                        /\ player_i' = player_i + 1
                        /\ UNCHANGED <<pc, exc>>
    /\ UNCHANGED <<df, player_FTpct_df, game_ids, game_i, game_boxscore,
                   game_shotchart, rectangles, render_i, screen, fg_args, fg_ret>>

\* the box score of one team as the rectangle keeps it (lines 284-285)
TeamBox(box, team) ==
    LET mine == SelectSeq(box, LAMBDA l : l.TEAM_ABBREVIATION = team)
    IN  [k \in 1 .. Len(mine) |->
            [PLAYER_ID |-> mine[k].PLAYER_ID, PTS |-> mine[k].PTS,
             xPTS |-> mine[k].xPTS, FGA |-> mine[k].FGA, FTA |-> mine[k].FTA,
             MIN |-> mine[k].MIN]]

RECURSIVE ISum(_)
ISum(s) == IF s = <<>> THEN 0 ELSE Head(s) + ISum(Tail(s))

PtsColumn(box) == [k \in 1 .. Len(box) |-> box[k].PTS]

XptsColumn(box) == [k \in 1 .. Len(box) |-> box[k].xPTS]

\* str(e) of the ValueError that `home_team,away_team = ...unique()` raises
\* when unique() holds n # 2 values (line 282)
UnpackMessage(n) ==
    IF n < 2
    THEN "not enough values to unpack (expected 2, got " \o ToString(n) \o ")"
    ELSE "too many values to unpack (expected 2)"

\* lines 280-296: insert the xPTS column, split by team, append the rectangle
FinishGame ==
    /\ pc = "players"
    /\ player_i > Len(game_boxscore)
    /\ LET with_xpts == [k \in 1 .. Len(game_boxscore) |->
                            game_boxscore[k] @@ [xPTS |-> xPTS_list[k]]]
           teams == Unique([k \in 1 .. Len(with_xpts) |->
                                with_xpts[k].TEAM_ABBREVIATION])
           home == TeamBox(with_xpts, teams[1])
           away == TeamBox(with_xpts, teams[2])
       IN  /\ game_boxscore' = with_xpts
           /\ IF Len(teams) # 2
              THEN /\ pc' = "except"
                   /\ exc' = Exc("ValueError", UnpackMessage(Len(teams)))
                   /\ UNCHANGED <<rectangles, game_i, render_i>>
              ELSE /\ UNCHANGED exc
                   /\ rectangles' = Append(rectangles,
                        [home_team |-> teams[1], away_team |-> teams[2],
                         score |-> <<ISum(PtsColumn(home)), ISum(PtsColumn(away))>>,
                         x_score |-> <<Round1(RSum(XptsColumn(home))),
                                       Round1(RSum(XptsColumn(away)))>>,
                         Home_boxscore |-> home, Away_boxscore |-> away])
                   /\ IF game_i < Len(game_ids)
                      THEN /\ game_i' = game_i + 1
                           /\ pc' = "box"
                           /\ UNCHANGED render_i
                      ELSE /\ pc' = "render"
                           /\ render_i' = 1
                           /\ UNCHANGED game_i
    /\ UNCHANGED <<calls, df, player_FTpct_df, game_ids, game_shotchart, player_i,
                   xPTS_list, screen, invoked, fg_args, fg_ret>>

\* row a sorts after row b when ordered by PTS, then xPTS, descending
SortsAfter(a, b) ==
    \/ a.PTS < b.PTS
    \/ a.PTS = b.PTS /\ RLt(a.xPTS, b.xPTS)

\* row put into a table already in descending order, after its equals
RECURSIVE InsertDesc(_, _)
InsertDesc(row, sorted) ==
    IF sorted = <<>> THEN <<row>>
    ELSE IF SortsAfter(Head(sorted), row) THEN <<row>> \o sorted
    ELSE <<Head(sorted)>> \o InsertDesc(row, Tail(sorted))

\* sort_values(by=['PTS','xPTS'], ascending=False): stable, descending
RECURSIVE SortValues(_)
SortValues(box) ==
    IF box = <<>> THEN <<>>
    ELSE InsertDesc(box[Len(box)], SortValues(SubSeq(box, 1, Len(box) - 1)))

\* reset_index(drop=True): the PLAYER_ID labels go
ResetIndex(box) ==
    [k \in 1 .. Len(box) |->
        [PTS |-> box[k].PTS, xPTS |-> box[k].xPTS, FGA |-> box[k].FGA,
         FTA |-> box[k].FTA, MIN |-> box[k].MIN]]

\* lines 329-335: the expander with the two tables of a game
Expander(game) ==
    [kind |-> "expander", home_team |-> game.home_team,
     away_team |-> game.away_team,
     c1 |-> ResetIndex(SortValues(game.Home_boxscore)),
     c2 |-> ResetIndex(SortValues(game.Away_boxscore))]

\* lines 301-335: put one computed game on the page; a team without a logo
\* raises KeyError after the rule (and the home logo) are written
RenderGame ==
    /\ pc = "render"
    /\ render_i <= Len(rectangles)
    /\ LET game == rectangles[render_i]
           rule == [kind |-> "markdown", body |-> "---"]
           home_logo == [kind |-> "image", logo |-> game.home_team]
           away_logo == [kind |-> "image", logo |-> game.away_team]
           scores == [kind |-> "score", score |-> game.score,
                      x_score |-> game.x_score]
       IN  IF game.home_team \notin team_logos
           THEN /\ screen' = screen \o <<rule>>
                /\ exc' = Exc("KeyError", Repr(game.home_team))
                /\ pc' = "except"
                /\ UNCHANGED render_i
           ELSE IF game.away_team \notin team_logos
           THEN /\ screen' = screen \o <<rule, home_logo>>
                /\ exc' = Exc("KeyError", Repr(game.away_team))
                /\ pc' = "except"
                /\ UNCHANGED render_i
           ELSE /\ screen' = screen \o <<rule, home_logo, away_logo, scores,
                                         Expander(game)>>
                /\ render_i' = render_i + 1
                /\ UNCHANGED <<pc, exc>>
    /\ UNCHANGED <<calls, df, player_FTpct_df, game_ids, game_i, game_boxscore,
                   game_shotchart, player_i, xPTS_list, rectangles, invoked,
                   fg_args, fg_ret>>

\* the render loop is exhausted: the script ends
RenderDone ==
    /\ pc = "render"
    /\ render_i > Len(rectangles)
    /\ pc' = "done"
    /\ UNCHANGED <<calls, df, player_FTpct_df, game_ids, game_i, game_boxscore,
                   game_shotchart, player_i, xPTS_list, rectangles, render_i,
                   screen, invoked, exc, fg_args, fg_ret>>

\* lines 339-341: the handler of the one try block around both loops
ExceptStep ==
    /\ pc = "except"
    /\ screen' = screen \o <<[kind |-> "An error occurred", e |-> exc],
                              [kind |-> "No games on"]>>
    /\ pc' = "done"
    /\ UNCHANGED <<calls, df, player_FTpct_df, game_ids, game_i, game_boxscore,
                   game_shotchart, player_i, xPTS_list, rectangles, render_i,
                   invoked, exc, fg_args, fg_ret>>

\* a direct call of get_fg
CallGetFg ==
    /\ pc = "fg_call"
    /\ fg_ret' = get_fg(fg_args.player_season_df, fg_args.shot_type,
                        fg_args.shot_zone_basic, fg_args.shot_area)
    /\ pc' = "fg_done"
    /\ UNCHANGED <<calls, df, player_FTpct_df, game_ids, game_i, game_boxscore,
                   game_shotchart, player_i, xPTS_list, rectangles, render_i,
                   screen, invoked, exc, fg_args>>

(***************************************************************************)
(* Specifications.                                                         *)
(***************************************************************************)
NoFgCall == [player_season_df |-> <<>>, shot_type |-> "", shot_zone_basic |-> "",
             shot_area |-> ""]

\* the script from line 239 on, for a date with NumGames games
Init ==
    /\ df \in DfScript
    /\ player_FTpct_df \in FtScript
    /\ game_ids = [k \in 1 .. NumGames |-> k]
    /\ pc = "box"
    /\ game_i = 1
    /\ game_boxscore = <<>>
    /\ game_shotchart = <<>>
    /\ player_i = 1
    /\ xPTS_list = <<>>
    /\ rectangles = <<>>
    /\ render_i = 1
    /\ screen = <<>>
    /\ invoked = {}
    /\ exc = NoExc
    /\ fg_args = NoFgCall
    /\ fg_ret = <<>>
    /\ calls = {}

Next ==
    \/ BoxScoreStep
    \/ ShotChartStep
    \/ PlayerStep
    \/ FinishGame
    \/ RenderGame
    \/ RenderDone
    \/ ExceptStep

Spec == Init /\ [][Next]_vars

\* the player loop of one game, entered with every season table, free-throw
\* table, box score and shot chart of the bounded sets
InitGame ==
    /\ df \in DfTables
    /\ player_FTpct_df \in FtTables
    /\ game_ids = <<1>>
    /\ pc = "players"
    /\ game_i = 1
    /\ \E raw \in GameBoxFeed :
         /\ game_boxscore = PrepareBox(raw)
         /\ \E rows \in ChartFeed(PrepareBox(raw), GameKinds) :
              game_shotchart = PrepareChart(rows)
    /\ player_i = 1
    /\ xPTS_list = <<>>
    /\ rectangles = <<>>
    /\ render_i = 1
    /\ screen = <<>>
    /\ invoked = {}
    /\ exc = NoExc
    /\ fg_args = NoFgCall
    /\ fg_ret = <<>>
    /\ calls = {}

NextGame ==
    \/ PlayerStep
    \/ FinishGame
    \/ RenderGame
    \/ RenderDone
    \/ ExceptStep

SpecGame == InitGame /\ [][NextGame]_vars

\* get_fg called on every bounded season table and every bucket
InitFg ==
    /\ \E d \in FgProfiles, b \in AllBuckets :
         fg_args = [player_season_df |-> d, shot_type |-> b.ACTION_TYPE,
                    shot_zone_basic |-> b.SHOT_ZONE_BASIC,
                    shot_area |-> b.SHOT_ZONE_AREA]
    /\ fg_ret = <<>>
    /\ pc = "fg_call"
    /\ df = <<>>
    /\ player_FTpct_df = <<>>
    /\ game_ids = <<>>
    /\ game_i = 1
    /\ game_boxscore = <<>>
    /\ game_shotchart = <<>>
    /\ player_i = 1
    /\ xPTS_list = <<>>
    /\ rectangles = <<>>
    /\ render_i = 1
    /\ screen = <<>>
    /\ invoked = {}
    /\ exc = NoExc
    /\ calls = {}

NextFg == CallGetFg

SpecFg == InitFg /\ [][NextFg]_vars

\* the script from line 239 on, for a date with NumGames games whose box
\* scores list two shooting players in either row order
InitCalls ==
    /\ df \in DfScript
    /\ player_FTpct_df \in FtScript
    /\ game_ids = [k \in 1 .. NumGames |-> k]
    /\ pc = "box"
    /\ game_i = 1
    /\ game_boxscore = <<>>
    /\ game_shotchart = <<>>
    /\ player_i = 1
    /\ xPTS_list = <<>>
    /\ rectangles = <<>>
    /\ render_i = 1
    /\ screen = <<>>
    /\ invoked = {}
    /\ exc = NoExc
    /\ fg_args = NoFgCall
    /\ fg_ret = <<>>
    /\ calls = {}

NextCalls ==
    \/ BoxScoreStepCalls
    \/ ShotChartStepCalls
    \/ PlayerStep
    \/ FinishGame
    \/ RenderGame
    \/ RenderDone
    \/ ExceptStep

SpecCalls == InitCalls /\ [][NextCalls]_vars

(***************************************************************************)
(* Quantities the properties are stated with, counted from the arguments   *)
(* of the direct get_fg call and from the game's tables.                   *)
(***************************************************************************)
\* n: season rows of fg_args in the queried exact bucket
ExactN ==
    LET d == fg_args.player_season_df
    IN  SumCounts(d, {r \in DOMAIN d :
            /\ r.ACTION_TYPE = fg_args.shot_type
            /\ r.SHOT_ZONE_BASIC = fg_args.shot_zone_basic
            /\ r.SHOT_ZONE_AREA = fg_args.shot_area})

\* m: made rows among them
ExactM ==
    LET d == fg_args.player_season_df
    IN  SumCounts(d, {r \in DOMAIN d :
            /\ r.ACTION_TYPE = fg_args.shot_type
            /\ r.SHOT_ZONE_BASIC = fg_args.shot_zone_basic
            /\ r.SHOT_ZONE_AREA = fg_args.shot_area
            /\ r.SHOT_MADE_FLAG = 1})

\* A: season rows of fg_args in the queried zone_basic, any action and area
CoarseA ==
    LET d == fg_args.player_season_df
    IN  SumCounts(d, {r \in DOMAIN d : r.SHOT_ZONE_BASIC = fg_args.shot_zone_basic})

\* M: made rows among them
CoarseM ==
    LET d == fg_args.player_season_df
    IN  SumCounts(d, {r \in DOMAIN d :
            r.SHOT_ZONE_BASIC = fg_args.shot_zone_basic /\ r.SHOT_MADE_FLAG = 1})

\* x = min(num/den + min(n/div, 1/4), 19/20), in integers
IsRateBonusCap(x, num, den, n, div) ==
    LET sn == IF 4 * n <= div THEN div * num + n * den ELSE 4 * num + den
        sd == IF 4 * n <= div THEN div * den ELSE 4 * den
    IN  IF 20 * sn > 19 * sd
        THEN x[1] * 20 = 19 * x[2]
        ELSE x[1] * sd = sn * x[2]

\* sum over the rows idx of the game log that belong to player p of
\* point value x estimate against p's own season rows
RECURSIVE ShotValueSum(_, _)
ShotValueSum(p, idx) ==
    IF idx = {} THEN RInt(0)
    ELSE LET k == CHOOSE i \in idx : TRUE
             r == game_shotchart[k]
             season == [x \in {y \in DOMAIN df : y.PLAYER_ID = p} |-> df[x]]
             v == IF r.PLAYER_ID = p
                  THEN RMul(RInt(IF r.SHOT_TYPE = "2" THEN 2 ELSE 3),
                            get_fg(season, r.ACTION_TYPE, r.SHOT_ZONE_BASIC,
                                   r.SHOT_ZONE_AREA))
                  ELSE RInt(0)
         IN  RAdd(v, ShotValueSum(p, idx \ {k}))

\* r is a multiple of 1/10 at distance at most 1/20 from x
IsNearestTenth(r, x) ==
    /\ 10 % r[2] = 0
    /\ 20 * Abs(r[1] * x[2] - x[1] * r[2]) <= r[2] * x[2]

GamesOnScreen == {k \in 1 .. Len(screen) : screen[k].kind = "expander"}

HasAttempts(line) == line.FGA + line.FTA > 0

(***************************************************************************)
(* Properties.                                                             *)
(***************************************************************************)
\* C1: every value get_fg returns lies in [0, 0.95], whichever branch
\* produced it.
FgInRange ==
    pc = "fg_done" =>
        /\ fg_ret[1] >= 0
        /\ fg_ret[2] > 0
        /\ 20 * fg_ret[1] <= 19 * fg_ret[2]

\* a sufficient-sample call whose raw value exceeds the clamp
FgInRangeWitness ==
    /\ pc = "fg_done"
    /\ ExactN > 5
    /\ ExactM = ExactN
    /\ fg_ret = <<19, 20>>

\* C2: the xPTS recorded for a player with attempts is the one-decimal
\* rounding of the sum over that player's rows of the game log of point value
\* x get_fg against that player's season rows, plus FTA x FT_PCT.
XptsIsRoundedSum ==
    \A k \in 1 .. Len(xPTS_list) :
        LET line == game_boxscore[k]
            p == line.PLAYER_ID
        IN  HasAttempts(line) =>
                /\ p \in DOMAIN player_FTpct_df
                /\ IsNearestTenth(xPTS_list[k],
                        RAdd(ShotValueSum(p, 1 .. Len(game_shotchart)),
                             RMul(RInt(line.FTA), player_FTpct_df[p])))

\* a player with a shot of positive value and a free throw, in a game log that
\* also holds a shot of the other player
XptsIsRoundedSumWitness ==
    \E k \in 1 .. Len(xPTS_list) :
        LET line == game_boxscore[k]
        IN  /\ line.FGA >= 1
            /\ line.FTA >= 1
            /\ ShotValueSum(line.PLAYER_ID, 1 .. Len(game_shotchart))[1] > 0
            /\ \E j \in 1 .. Len(game_shotchart) :
                    game_shotchart[j].PLAYER_ID # line.PLAYER_ID

\* C3: a player with 0 FGA and 0 FTA is recorded with exactly 0, no call of
\* get_player_xpts or get_fg is made for that player, and the player's step
\* never raises, whatever the season table and the free-throw table hold.
ZeroAttemptsZero ==
    /\ \A k \in 1 .. Len(xPTS_list) :
            ~HasAttempts(game_boxscore[k]) =>
                /\ xPTS_list[k] = <<0, 1>>
                /\ \A c \in invoked : c.player # game_boxscore[k].PLAYER_ID
    /\ (pc = "except" /\ player_i <= Len(game_boxscore))
            => HasAttempts(game_boxscore[player_i])

\* a recorded player without attempts and without a free-throw entry whose
\* season table is not empty
ZeroAttemptsZeroWitness ==
    \E k \in 1 .. Len(xPTS_list) :
        LET p == game_boxscore[k].PLAYER_ID
        IN  /\ ~HasAttempts(game_boxscore[k])
            /\ p \notin DOMAIN player_FTpct_df
            /\ \E r \in DOMAIN df : r.PLAYER_ID = p /\ df[r] > 0

\* C4: when the computation of a game failed (the script ended with fewer
\* rectangles than games), every game of the date that was computed is on
\* the page.
FailureIsolated ==
    (pc = "done" /\ Len(rectangles) < Len(game_ids)) =>
        \A j \in 1 .. Len(rectangles) :
            \E k \in GamesOnScreen : screen[k] = Expander(rectangles[j])

\* C5: a player with attempts and no free-throw entry never gets an xPTS
\* value: the player loop stops at that player with a KeyError, which the
\* handler of the script reports.
MissingFtRaises ==
    \A k \in 1 .. Len(game_boxscore) :
        LET line == game_boxscore[k]
        IN  (HasAttempts(line) /\ line.PLAYER_ID \notin DOMAIN player_FTpct_df) =>
                /\ Len(xPTS_list) < k
                /\ player_i <= k
                /\ pc \in {"chart", "players", "except", "done"}
                /\ (pc = "except" /\ player_i = k) =>
                        exc = [type |-> "KeyError", arg |-> ToString(line.PLAYER_ID)]
                /\ (pc = "done" /\ player_i = k) =>
                        screen = <<[kind |-> "An error occurred", e |-> exc],
                                   [kind |-> "No games on"]>>

\* the script has ended on the KeyError of a player with a free throw
MissingFtRaisesWitness ==
    /\ pc = "done"
    /\ exc.type = "KeyError"
    /\ player_i <= Len(game_boxscore)
    /\ game_boxscore[player_i].FTA >= 1
    /\ game_boxscore[player_i].PLAYER_ID \notin DOMAIN player_FTpct_df

\* C6: once a box score or shot chart fetch has failed, no game of the date
\* is on the page, and the script ends with the failure message alone.
FetchFailureAborts ==
    exc.type \in {"TypeError", "FetchError"} =>
        /\ GamesOnScreen = {}
        /\ pc \in {"except", "done"}
        /\ pc = "done" => screen = <<[kind |-> "An error occurred", e |-> exc],
                                     [kind |-> "No games on"]>>

\* the script has ended on a fetch failure after computing an earlier game
FetchFailureAbortsWitness ==
    /\ pc = "done"
    /\ exc.type \in {"TypeError", "FetchError"}
    /\ Len(rectangles) >= 1

\* C7: in the sparse branch with a non-empty zone the value is
\* min(M/A + min(n/250, 0.25), 0.95) with M the makes of the whole zone.
SparseUsesZoneMakes ==
    (pc = "fg_done" /\ ExactN <= 5 /\ CoarseA > 0) =>
        IsRateBonusCap(fg_ret, CoarseM, CoarseA, ExactN, 250)

\* C8: with n > 5 the value is min(m/n + min(n/150, 0.25), 0.95); n = 5 is
\* not in this branch (its value is not given by that formula).
ExactBranchFormula ==
    /\ (pc = "fg_done" /\ ExactN > 5) =>
            IsRateBonusCap(fg_ret, ExactM, ExactN, ExactN, 150)
    /\ (pc = "fg_done" /\ ExactN = 5) =>
            ~IsRateBonusCap(fg_ret, ExactM, ExactN, ExactN, 150)

\* a call with n = 6 and some makes, below the clamp
ExactBranchFormulaWitness ==
    /\ pc = "fg_done"
    /\ ExactN = 6
    /\ ExactM = 3
    /\ fg_ret = <<27, 50>>

\* C9: with no season row in the queried zone (the exact bucket is then empty
\* too) get_fg returns exactly 0.
EmptyZoneZero ==
    (pc = "fg_done" /\ CoarseA = 0) => (ExactN = 0 /\ fg_ret = <<0, 1>>)

\* a call on a season table that has made shots, none of them in the zone
EmptyZoneZeroWitness ==
    /\ pc = "fg_done"
    /\ CoarseA = 0
    /\ \E r \in DOMAIN fg_args.player_season_df :
            r.SHOT_MADE_FLAG = 1 /\ fg_args.player_season_df[r] > 0
    /\ fg_ret = <<0, 1>>

\* C10: calls of get_player_xpts for the same player, the same rows of that
\* player in the game log and the same free-throw attempts return the same
\* result, whichever game of the date they are made in, whichever row the
\* player is on, whatever the other player's line and shots are and whatever
\* calls came before; and an iteration of the player loop changes neither
\* the season table, the free-throw table, the game log nor the box score.
CallsIndependent ==
    /\ [](\A c1, c2 \in calls : SameInputs(c1, c2) => c1.ret = c2.ret)
    /\ [][/\ df' = df
          /\ player_FTpct_df' = player_FTpct_df
          /\ (pc = "players" /\ player_i <= Len(game_boxscore)) =>
                /\ game_shotchart' = game_shotchart
                /\ game_boxscore' = game_boxscore]_vars

\* a player called from the first row in game 1 was called again in a later
\* game from the second row, with the same shots and free throws, after the
\* other player of that game, who has shots of their own; both calls gave a
\* value
CallsIndependentWitness ==
    /\ game_i >= 2
    /\ \E c1, c2 \in calls :
            /\ c1.row = 1
            /\ c2.row = 2
            /\ c1.FTA >= 1
            /\ Len(c1.shots) >= 1
            /\ c1.ret.raised = "no"
            /\ c2.ret.raised = "no"
            /\ c1.ret.value[1] > 0
    /\ Len(xPTS_list) = 2
    /\ \E k \in 1 .. Len(game_shotchart) :
            \A c \in calls : game_shotchart[k].PLAYER_ID # c.player_id

====
